---------------------------- MODULE Spec2Model ----------------------------
(***************************************************************************)
(* Model of the travel reimbursement calculator                            *)
(* (src/improved_reimbursement.py): the engine calculate_reimbursement as  *)
(* a sequence of steps over a call frame, and the command line main().     *)
(*                                                                         *)
(* Number representation.  The program computes with IEEE-754 doubles.     *)
(*   - miles_traveled is held in hundredths of a mile, total_receipts_     *)
(*     amount in cents: inputs are decimals with two places.               *)
(*   - money is held in units of 1/100000 dollar ("mu"): every product of  *)
(*     a two-place input with a rate of the program (0.42, 0.15, 0.05, the *)
(*     three-place receipt multipliers, 0.6, 0.2) is a whole number of mu, *)
(*     so the running total is exact.  The double total differs from it by *)
(*     less than 1e-9, which decides the final round() only when the exact *)
(*     total lies exactly halfway between two cents (see round2).          *)
(*   - cents (line 87) is the one place where the double error changes an  *)
(*     integer result; it is computed as the doubles compute it (see       *)
(*     cents).                                                             *)
(*   - Huge stands for the finite doubles x with x * 7 = inf (x > 2.57e307,*)
(*     such as 1e308): the products x * 13, x * 7 and x * 100 overflow.    *)
(***************************************************************************)
EXTENDS Integers, Sequences, FiniteSets, TLC

VARIABLES
    frame,      \* the call frames of calculate_reimbursement, one per caller
    argv,       \* main: the positional arguments, sys.argv[1:]
    mainpc,     \* main: where it is
    locals,     \* main: its parsed arguments
    stdout,     \* main: what it has printed
    exitcode    \* the exit status of the process, -1 while it runs

mainVars == <<argv, mainpc, locals, stdout, exitcode>>

vars == <<frame, argv, mainpc, locals, stdout, exitcode>>

---------------------------------------------------------------------------
(* Units *)

\* mu per dollar, per cent
Dollar == 100 * 1000
Cent == 10 * 100

\* the class of doubles whose products with 7, 13 and 100 overflow; it is
\* above every finite value of the model
Huge == 2147483646 + 1

IsHuge(x) == x = Huge

Min(a, b) == IF a < b THEN a ELSE b

---------------------------------------------------------------------------
(* Program constants (src/improved_reimbursement.py) *)

PerDiem == 115
\* rates per mile, in cents
MileageRate == 42
UpperPenaltyRate == 15
LowerPenaltyRate == 5
\* mileage breakpoints, in miles
UpperMiles == 800
LowerMiles == 400
\* receipt breakpoints, in dollars
UpperCap == 2000
MidCap == 1000
\* tenths
CapDampening == 2
ExcessDampening == 6
\* receipt multiplier for a duration outside the table, in thousandths
DefaultMultiplier == -80
\* miles per day
EfficiencyLow == 200
EfficiencyHigh == 300
PerDayBonus == 8
BonusCeiling == 40
FiveDays == 5
FiveDayBonus == 20
QuarterMinDays == 3
HashDays == 17
HashMiles == 13
HashReceipts == 7
HashModulus == 100
QuarterThreshold == 15
PerDayQuarterBonus == 5
Cents49 == 49
Cents99 == 99
Bonus49 == 8
Bonus99 == 12
MinimumFloorRate == 85

---------------------------------------------------------------------------
(* Stage 1-2: base formula and mileage tiers (lines 26-37) *)

\* line 26; miles_traveled m in hundredths of a mile
base_formula(d, m) ==
    IF IsHuge(m) THEN Huge
    ELSE d * PerDiem * Dollar + m * MileageRate * 10

\* mutant: the upper tier charges its rate on every mile, not on the excess
mileage_penalty_on_all_miles(m) ==
    IF IsHuge(m) THEN 0
    ELSE IF m > UpperMiles * 100 THEN m * UpperPenaltyRate * 10
    ELSE IF m > LowerMiles * 100 THEN (m - LowerMiles * 100) * LowerPenaltyRate * 10
    ELSE 0

\* lines 30-37: the amount subtracted from base_reimbursement
mileage_penalty(m) ==
    IF IsHuge(m) THEN 0
    ELSE IF m > UpperMiles * 100 THEN (m - UpperMiles * 100) * UpperPenaltyRate * 10
    ELSE IF m > LowerMiles * 100 THEN (m - LowerMiles * 100) * LowerPenaltyRate * 10
    ELSE 0

\* base_reimbursement after line 37 (a Huge mileage leaves 0.27 * x, Huge)
base_reimbursement(d, m) ==
    IF IsHuge(m) THEN Huge ELSE base_formula(d, m) - mileage_penalty(m)

---------------------------------------------------------------------------
(* Stage 3: receipt processing (lines 41-61) *)

\* lines 41-45, in thousandths
multipliers ==
    <<520, 500, 380, 410, 395, 385, 330, 225, 150, 105, 90, 40, -5, -55>>

\* mutant: the table read two entries further on
receipt_multiplier_shifted(d) ==
    IF d + 2 \in DOMAIN multipliers THEN multipliers[d + 2] ELSE DefaultMultiplier

\* mutant: no default for a duration outside the table
receipt_multiplier_no_default(d) ==
    IF d \in DOMAIN multipliers THEN multipliers[d] ELSE 0

\* line 47: multipliers.get(trip_duration_days, -0.08)
receipt_multiplier(d) ==
    IF d \in DOMAIN multipliers THEN multipliers[d] ELSE DefaultMultiplier

\* lines 50-61; r in cents, the result in mu (a Huge amount leaves
\* 0.2 * x * multiplier, Huge with the multiplier's sign).  Every multiplier is a
\* multiple of 0.005, so multiplier * 0.6 and multiplier * 0.2 are whole
\* numbers of thousandths and the divisions by 10 are exact.
receipt_contribution(d, r) ==
    LET k == receipt_multiplier(d) IN
    IF IsHuge(r) THEN (IF k < 0 THEN 0 - Huge ELSE Huge)
    ELSE IF r > UpperCap * 100
    THEN UpperCap * 100 * k + (r - UpperCap * 100) * ((CapDampening * k) \div 10)
    ELSE IF r > MidCap * 100
    THEN MidCap * 100 * k + (r - MidCap * 100) * ((ExcessDampening * k) \div 10)
    ELSE r * k

---------------------------------------------------------------------------
(* Stage 4: bonuses (lines 66-83), in dollars *)

\* mutant: the range taken without its endpoints
efficiency_bonus_exclusive(d, m) ==
    IF d > 0 /\ ~IsHuge(m)
       /\ EfficiencyLow * 100 * d < m /\ m < EfficiencyHigh * 100 * d
    THEN Min(d * PerDayBonus, BonusCeiling)
    ELSE 0

\* lines 66-71
efficiency_bonus(d, m) ==
    IF d > 0 /\ ~IsHuge(m)
       /\ EfficiencyLow * 100 * d <= m /\ m <= EfficiencyHigh * 100 * d
    THEN Min(d * PerDayBonus, BonusCeiling)
    ELSE 0

\* mutant: the bonus given from five days on
five_day_bonus_from(d) == IF d >= FiveDays THEN FiveDayBonus ELSE 0

\* mutant: the bonus forgotten
five_day_bonus_none(d) == 0

\* lines 74-75
five_day_bonus(d) == IF d = FiveDays THEN FiveDayBonus ELSE 0

\* mutant: the mileage multiplied by 12, which shares a factor with 100
trip_hash_even(d, m, r) ==
    (d * HashDays + ((m * 12) \div 100) + ((r * HashReceipts) \div 100))
        % HashModulus

\* line 81, for finite inputs: int() truncates, and the products of
\* two-place decimals with 13 and 7 are whole only when exact in doubles
trip_hash(d, m, r) ==
    (d * HashDays + ((m * HashMiles) \div 100) + ((r * HashReceipts) \div 100))
        % HashModulus

\* mutant: a hash equal to the threshold selected too
quarter_adjustment_inclusive(d, m, r) ==
    IF d >= QuarterMinDays /\ trip_hash(d, m, r) <= QuarterThreshold
    THEN d * PerDayQuarterBonus
    ELSE 0

\* lines 78-83
quarter_adjustment(d, m, r) ==
    IF d >= QuarterMinDays /\ trip_hash(d, m, r) < QuarterThreshold
    THEN d * PerDayQuarterBonus
    ELSE 0

---------------------------------------------------------------------------
(* Stage 5: rounding bonus (lines 87-92) *)

RECURSIVE Log2(_)
\* the largest e with 2^e <= n, for n >= 1
Log2(n) == IF n < 2 THEN 0 ELSE 1 + Log2(n \div 2)

RECURSIVE NegLog2(_)
\* the smallest k with r * 2^k >= 100, for 1 <= r < 100
NegLog2(r) == IF r >= 100 THEN 0 ELSE 1 + NegLog2(2 * r)

RECURSIVE Pow2Mod(_, _)
\* 2^n modulo q
Pow2Mod(n, q) == IF n = 0 THEN 1 % q ELSE (2 * Pow2Mod(n - 1, q)) % q

\* the binary exponent of the double nearest r / 100, for r >= 1
DoubleExp(r) == IF r >= 100 THEN Log2(r \div 100) ELSE 0 - NegLog2(r)

\* line 87: int((total_receipts_amount * 100) % 100), for r >= 0 cents.
\* The argument is the double x nearest r/100, with 53 significant bits and
\* a last bit worth U = 2^(DoubleExp(r) - 52).  With n = 52 - DoubleExp(r),
\* r/100 = (M + rem/100) * U where M = (r * 2^n) div 100 and
\* rem = (r * 2^n) mod 100.  x is M * U (rounded down) or (M + 1) * U
\* (rounded up), to nearest and to even M on a tie, so that x * 100 is
\* exactly r - rem * U or r + (100 - rem) * U.  That product is rounded to a
\* double again: the doubles just below r are V apart, V = 2^(Log2(r) - 52),
\* or half of that when r is a power of two.  A product above r truncates
\* to r; a product below r rounds back to r when rem * U <= V / 2 (on the
\* tie r has the even mantissa) and else to r - V, which truncates to r - 1.
cents(r) ==
    IF r = 0 THEN 0
    ELSE LET n == 52 - DoubleExp(r)
             rem == ((r % 100) * Pow2Mod(n, 100)) % 100
             parity == (((r % 200) * Pow2Mod(n, 200)) % 200) \div 100
             down == rem < 50 \/ (rem = 50 /\ parity = 0)
             spacing == 2 ^ (Log2(r) - DoubleExp(r))
             below == IF 2 ^ Log2(r) = r THEN spacing \div 2 ELSE spacing
         IN  IF rem = 0 \/ ~down \/ 2 * rem <= below
             THEN r % 100
             ELSE (r - 1) % 100

\* lines 88-92, in dollars
rounding_bonus(r) ==
    IF cents(r) = Cents49 THEN Bonus49
    ELSE IF cents(r) = Cents99 THEN Bonus99
    ELSE 0

---------------------------------------------------------------------------
(* Stage 6: sum, floor and rounding (lines 95-107) *)

\* lines 95-99; base and contribution in mu, the bonuses in dollars
total_sum(base, contribution, efficiency, quarter, rounding) ==
    IF IsHuge(base) THEN Huge
    ELSE base + contribution + (efficiency + quarter + rounding) * Dollar

\* line 102, in mu
min_reimbursement(d) == d * MinimumFloorRate * Dollar

\* mutant: a total below the floor blended with it
floor_clamp_blend(total, d) ==
    IF total < min_reimbursement(d)
    THEN (total + min_reimbursement(d)) \div 2
    ELSE total

\* mutant: the floor compared but never applied
floor_clamp_none(total, d) == total

\* lines 103-104
floor_clamp(total, d) ==
    IF total < min_reimbursement(d) THEN min_reimbursement(d) ELSE total

\* line 107: round(total_reimbursement, 2), the possible results in cents.
\* round() gives the two-place decimal nearest the double's exact value.
\* The double total is within 1e-9 of the exact total, so the result is the
\* cent nearest the exact total, except when that lies exactly halfway
\* between two cents: the double's error then decides, and either cent can
\* come out (2 days, 0 miles: 0.01 gives 230.0 and 0.03 gives 230.01).
\* A Huge total is returned as it is.
round2(total) ==
    IF IsHuge(total) THEN {Huge}
    ELSE LET q == total \div Cent
             h == total % Cent
         IN  IF 2 * h < Cent THEN {q}
             ELSE IF 2 * h > Cent THEN {q + 1}
             ELSE {q, q + 1}

\* the exact total before the floor, for finite inputs
total_before_floor(d, m, r) ==
    total_sum(base_reimbursement(d, m), receipt_contribution(d, r),
              efficiency_bonus(d, m) + five_day_bonus(d),
              quarter_adjustment(d, m, r), rounding_bonus(r))

---------------------------------------------------------------------------
(* Exceptions of the engine *)

\* line 81: int() of a product that overflowed to inf raises OverflowError
hash_overflows(d, m, r) == d >= QuarterMinDays /\ (IsHuge(m) \/ IsHuge(r))

\* line 87: x * 100 is inf, inf % 100 is nan, and int(nan) raises ValueError
cents_invalid(r) == IsHuge(r)

---------------------------------------------------------------------------
(* Bounds and inputs *)

MaxDays == 16
MileSpread == 1
ReceiptSpread == 1

Callers == {1, 2}

Days == 0..MaxDays

\* whole miles around the mileage breakpoints, the scenario values and the
\* ends of the efficiency range of a d-day trip
MilePoints(d) ==
    {0, 250, LowerMiles, UpperMiles, 1000, EfficiencyLow * d, EfficiencyHigh * d}

\* miles_traveled in hundredths: the whole miles within MileSpread of a
\* point, the values one hundredth off a point, and Huge
Miles(d) ==
    {m \in {100 * (p + k) : p \in MilePoints(d), k \in (0 - MileSpread)..MileSpread}
        : m >= 0}
    \cup {m \in {100 * p + f : p \in MilePoints(d), f \in {-1, 1}} : m >= 0}
    \cup {Huge}

\* dollars around which receipts are taken: the tier breakpoints, the
\* scenario value, amounts whose cents the doubles keep (12) and lose (16,
\* 19), and amounts large enough for the floor to apply on long trips
ReceiptPoints == {0, 12, 16, 19, 500, MidCap, UpperCap, 25000, 31000}

\* total_receipts_amount in cents: within ReceiptSpread cents of a whole
\* dollar, the cent values 48, 49, 50, the whole dollars next to the
\* points, and Huge
Receipts ==
    {r \in {100 * p + k : p \in ReceiptPoints,
                          k \in ((0 - ReceiptSpread)..ReceiptSpread) \cup {48, 49, 50}}
        : r >= 0}
    \cup {r \in {100 * (p + k) : p \in ReceiptPoints, k \in {-1, 1}} : r >= 0}
    \cup {Huge}

---------------------------------------------------------------------------
(* The engine: calculate_reimbursement, one call per frame *)

NoFrame ==
    [pc |-> "idle",
     trip_duration_days |-> 0, miles_traveled |-> 0, total_receipts_amount |-> 0,
     base_reimbursement |-> 0, receipt_contribution |-> 0, efficiency_bonus |-> 0,
     quarter_adjustment |-> 0, rounding_bonus |-> 0, total_reimbursement |-> 0,
     result |-> 0, exc |-> "none"]

Set(c, f) == frame' = [frame EXCEPT ![c] = f]

\* line 17: a call with arguments (d, m, r)
Enter(c, d, m, r) ==
    Set(c, [NoFrame EXCEPT !.pc = "base", !.trip_duration_days = d,
                           !.miles_traveled = m, !.total_receipts_amount = r])

\* line 26
BaseFormula(c) ==
    LET f == frame[c] IN
    /\ f.pc = "base"
    /\ Set(c, [f EXCEPT !.pc = "mileage",
                        !.base_reimbursement =
                            base_formula(f.trip_duration_days, f.miles_traveled)])
    /\ UNCHANGED mainVars

\* lines 30-37
MileageAdjustments(c) ==
    LET f == frame[c] IN
    /\ f.pc = "mileage"
    /\ Set(c, [f EXCEPT !.pc = "receipts",
                        !.base_reimbursement =
                            IF IsHuge(f.base_reimbursement) THEN Huge
                            ELSE f.base_reimbursement - mileage_penalty(f.miles_traveled)])
    /\ UNCHANGED mainVars

\* lines 41-61
ReceiptProcessing(c) ==
    LET f == frame[c] IN
    /\ f.pc = "receipts"
    /\ Set(c, [f EXCEPT !.pc = "efficiency",
                        !.receipt_contribution =
                            receipt_contribution(f.trip_duration_days,
                                                 f.total_receipts_amount)])
    /\ UNCHANGED mainVars

\* lines 66-71
EfficiencyBonus(c) ==
    LET f == frame[c] IN
    /\ f.pc = "efficiency"
    /\ Set(c, [f EXCEPT !.pc = "five_day",
                        !.efficiency_bonus =
                            efficiency_bonus(f.trip_duration_days, f.miles_traveled)])
    /\ UNCHANGED mainVars

\* lines 74-75: efficiency_bonus += 20
FiveDayBonusStep(c) ==
    LET f == frame[c] IN
    /\ f.pc = "five_day"
    /\ Set(c, [f EXCEPT !.pc = "quarter",
                        !.efficiency_bonus =
                            f.efficiency_bonus + five_day_bonus(f.trip_duration_days)])
    /\ UNCHANGED mainVars

\* lines 78-83
QuarterAdjustment(c) ==
    LET f == frame[c] IN
    /\ f.pc = "quarter"
    /\ IF hash_overflows(f.trip_duration_days, f.miles_traveled,
                         f.total_receipts_amount)
       THEN Set(c, [f EXCEPT !.pc = "raised", !.exc = "OverflowError"])
       ELSE Set(c, [f EXCEPT !.pc = "rounding",
                             !.quarter_adjustment =
                                 IF f.trip_duration_days >= QuarterMinDays
                                 THEN quarter_adjustment(f.trip_duration_days,
                                                         f.miles_traveled,
                                                         f.total_receipts_amount)
                                 ELSE 0])
    /\ UNCHANGED mainVars

\* lines 87-92
RoundingBug(c) ==
    LET f == frame[c] IN
    /\ f.pc = "rounding"
    /\ IF cents_invalid(f.total_receipts_amount)
       THEN Set(c, [f EXCEPT !.pc = "raised", !.exc = "ValueError"])
       ELSE Set(c, [f EXCEPT !.pc = "final",
                             !.rounding_bonus = rounding_bonus(f.total_receipts_amount)])
    /\ UNCHANGED mainVars

\* lines 95-104
FinalCalculation(c) ==
    LET f == frame[c] IN
    /\ f.pc = "final"
    /\ Set(c, [f EXCEPT !.pc = "return",
                        !.total_reimbursement =
                            floor_clamp(total_sum(f.base_reimbursement,
                                                  f.receipt_contribution,
                                                  f.efficiency_bonus,
                                                  f.quarter_adjustment,
                                                  f.rounding_bonus),
                                        f.trip_duration_days)])
    /\ UNCHANGED mainVars

\* line 107
Return(c) ==
    LET f == frame[c] IN
    /\ f.pc = "return"
    /\ \E v \in round2(f.total_reimbursement) :
          Set(c, [f EXCEPT !.pc = "done", !.result = v])
    /\ UNCHANGED mainVars

\* one step of the call in frame c
Step(c) ==
    \/ BaseFormula(c)
    \/ MileageAdjustments(c)
    \/ ReceiptProcessing(c)
    \/ EfficiencyBonus(c)
    \/ FiveDayBonusStep(c)
    \/ QuarterAdjustment(c)
    \/ RoundingBug(c)
    \/ FinalCalculation(c)
    \/ Return(c)

---------------------------------------------------------------------------
(* A caller of the engine: calls it, takes the result, calls it again *)

Call(c) ==
    /\ frame[c].pc = "idle"
    /\ \E d \in Days : \E m \in Miles(d) : \E r \in Receipts : Enter(c, d, m, r)
    /\ UNCHANGED mainVars

\* the frame is discarded when the call has returned or raised
Discard(c) ==
    /\ frame[c].pc \in {"done", "raised"}
    /\ Set(c, NoFrame)
    /\ UNCHANGED mainVars

NoLocals == [trip_duration_days |-> 0, miles_traveled |-> 0, total_receipts_amount |-> 0]

InitEngine ==
    /\ frame = [c \in Callers |-> NoFrame]
    /\ argv = <<>>
    /\ mainpc = "none"
    /\ locals = NoLocals
    /\ stdout = <<>>
    /\ exitcode = -1

Init == InitEngine

Next == Call(1) \/ Step(1) \/ Discard(1)

Spec == Init /\ [][Next]_vars

---------------------------------------------------------------------------
(* Callers that run at the same time *)

ConcDays == {1, 3}
ConcMiles == {0, 250 * 100, Huge}
ConcReceipts == {0, 1249}

CallConc(c) ==
    /\ frame[c].pc = "idle"
    /\ \E d \in ConcDays : \E m \in ConcMiles : \E r \in ConcReceipts : Enter(c, d, m, r)
    /\ UNCHANGED mainVars

NextConc == \E c \in Callers : CallConc(c) \/ Step(c) \/ Discard(c)

SpecConc == Init /\ [][NextConc]_vars

---------------------------------------------------------------------------
(* The command line: main (lines 109-124) *)

MaxArgs == 4

Digits == <<"0", "1", "2", "3", "4", "5", "6", "7", "8", "9">>

IsDigit(ch) == \E i \in DOMAIN Digits : Digits[i] = ch

DigitVal(ch) == (CHOOSE i \in DOMAIN Digits : Digits[i] = ch) - 1

IsDigits(t) == Len(t) > 0 /\ \A i \in DOMAIN t : IsDigit(t[i])

RECURSIVE DecVal(_)
\* the number a sequence of digits writes
DecVal(t) == IF t = <<>> THEN 0 ELSE DecVal(SubSeq(t, 1, Len(t) - 1)) * 10 + DigitVal(t[Len(t)])

\* the first place of ch in t, 0 when there is none
Find(t, ch) ==
    IF \E i \in DOMAIN t : t[i] = ch
    THEN CHOOSE i \in DOMAIN t : t[i] = ch /\ \A j \in 1..(i - 1) : t[j] # ch
    ELSE 0

\* the argument strings of the model, as sequences of characters: whole
\* numbers, a two-place decimal, 1e308, a word and the empty string
Tokens ==
    {<<"1">>, <<"3">>, <<"4", "0">>, <<"1", "2", ".", "4", "9">>,
     <<"1", "e", "3", "0", "8">>, <<"x">>, <<>>}

\* line 115: int(s) takes a string of digits (signs, blanks and underscores
\* are not among the characters of the model) and raises ValueError otherwise
int_parses(t) == IsDigits(t)

int_value(t) == DecVal(t)

\* the parts of a float literal: digits [. digits] [e digits]
Mantissa(t) == IF Find(t, "e") = 0 THEN t ELSE SubSeq(t, 1, Find(t, "e") - 1)
Exponent(t) == SubSeq(t, Find(t, "e") + 1, Len(t))
IntPart(t) ==
    IF Find(Mantissa(t), ".") = 0 THEN Mantissa(t)
    ELSE SubSeq(Mantissa(t), 1, Find(Mantissa(t), ".") - 1)
FracPart(t) ==
    IF Find(Mantissa(t), ".") = 0 THEN <<>>
    ELSE SubSeq(Mantissa(t), Find(Mantissa(t), ".") + 1, Len(Mantissa(t)))

\* lines 116-117: float(s) takes digits with an optional fraction and an
\* optional exponent, and raises ValueError otherwise
float_parses(t) ==
    /\ IntPart(t) = <<>> \/ IsDigits(IntPart(t))
    /\ FracPart(t) = <<>> \/ IsDigits(FracPart(t))
    /\ IntPart(t) # <<>> \/ FracPart(t) # <<>>
    /\ Find(t, "e") = 0 \/ IsDigits(Exponent(t))

\* the value of a float literal in hundredths, for a fraction of at most
\* two digits; with an exponent, a literal from 1e308 to 1.79e308 (the
\* largest doubles) is Huge and a small exponent multiplies
float_value(t) ==
    LET f == FracPart(t)
        hundredths == DecVal(IntPart(t)) * 100
                      + (IF Len(f) = 0 THEN 0
                         ELSE IF Len(f) = 1 THEN DecVal(f) * 10
                         ELSE DecVal(SubSeq(f, 1, 2)))
    IN  IF Find(t, "e") = 0 THEN hundredths
        ELSE IF DecVal(Exponent(t)) = 308 /\ hundredths \in 100..179 THEN Huge
        ELSE hundredths * (10 ^ DecVal(Exponent(t)))

Printed(kind, value) == <<[kind |-> kind, value |-> value]>>

\* line 110
CheckArgc ==
    /\ mainpc = "argc"
    /\ IF Len(argv) # 3
       THEN /\ stdout' = Printed("usage", 0)
            /\ exitcode' = 1
            /\ mainpc' = "exit"
       ELSE /\ mainpc' = "int"
            /\ UNCHANGED <<stdout, exitcode>>
    /\ UNCHANGED <<frame, argv, locals>>

\* lines 122-124: the handler of ValueError
ExceptValueError ==
    /\ stdout' = Printed("error", 0)
    /\ exitcode' = 1
    /\ mainpc' = "exit"

\* line 115
ParseDays ==
    /\ mainpc = "int"
    /\ IF int_parses(argv[1])
       THEN /\ locals' = [locals EXCEPT !.trip_duration_days = int_value(argv[1])]
            /\ mainpc' = "float_miles"
            /\ UNCHANGED <<stdout, exitcode>>
       ELSE ExceptValueError /\ UNCHANGED locals
    /\ UNCHANGED <<frame, argv>>

\* line 116
ParseMiles ==
    /\ mainpc = "float_miles"
    /\ IF float_parses(argv[2])
       THEN /\ locals' = [locals EXCEPT !.miles_traveled = float_value(argv[2])]
            /\ mainpc' = "float_receipts"
            /\ UNCHANGED <<stdout, exitcode>>
       ELSE ExceptValueError /\ UNCHANGED locals
    /\ UNCHANGED <<frame, argv>>

\* line 117
ParseReceipts ==
    /\ mainpc = "float_receipts"
    /\ IF float_parses(argv[3])
       THEN /\ locals' = [locals EXCEPT !.total_receipts_amount = float_value(argv[3])]
            /\ mainpc' = "call"
            /\ UNCHANGED <<stdout, exitcode>>
       ELSE ExceptValueError /\ UNCHANGED locals
    /\ UNCHANGED <<frame, argv>>

\* line 119: the call
CallEngine ==
    /\ mainpc = "call"
    /\ Enter(1, locals.trip_duration_days, locals.miles_traveled,
             locals.total_receipts_amount)
    /\ mainpc' = "engine"
    /\ UNCHANGED <<argv, locals, stdout, exitcode>>

\* lines 119-120: the call has returned; print(result), and the process
\* ends with status 0
PrintResult ==
    /\ mainpc = "engine"
    /\ frame[1].pc = "done"
    /\ stdout' = Printed("result", frame[1].result)
    /\ exitcode' = 0
    /\ mainpc' = "exit"
    /\ UNCHANGED <<frame, argv, locals>>

\* lines 119, 122-124: the call has raised ValueError, which main handles
CatchValueError ==
    /\ mainpc = "engine"
    /\ frame[1].pc = "raised" /\ frame[1].exc = "ValueError"
    /\ ExceptValueError
    /\ UNCHANGED <<frame, argv, locals>>

\* line 119: the call has raised OverflowError, which no handler takes: the
\* interpreter writes the traceback to standard error and ends with status 1
Uncaught ==
    /\ mainpc = "engine"
    /\ frame[1].pc = "raised" /\ frame[1].exc # "ValueError"
    /\ exitcode' = 1
    /\ mainpc' = "exit"
    /\ UNCHANGED <<frame, argv, locals, stdout>>

\* the process starts with any arguments
InitCLI ==
    /\ frame = [c \in Callers |-> NoFrame]
    /\ argv \in UNION {[1..n -> Tokens] : n \in 0..MaxArgs}
    /\ mainpc = "argc"
    /\ locals = NoLocals
    /\ stdout = <<>>
    /\ exitcode = -1

NextCLI ==
    \/ CheckArgc
    \/ ParseDays
    \/ ParseMiles
    \/ ParseReceipts
    \/ CallEngine
    \/ (mainpc = "engine" /\ Step(1))
    \/ PrintResult
    \/ CatchValueError
    \/ Uncaught

SpecCLI == InitCLI /\ [][NextCLI]_vars

---------------------------------------------------------------------------
(* What a call returns, as a function of its arguments *)

\* the values calculate_reimbursement(d, m, r) can return, in cents, for
\* finite arguments
calculate_reimbursement(d, m, r) ==
    round2(floor_clamp(total_before_floor(d, m, r), d))

Finite(f) == ~IsHuge(f.miles_traveled) /\ ~IsHuge(f.total_receipts_amount)

\* the arguments the contract covers: duration_days >= 1 (miles and
\* receipts are never negative in the model)
Valid(f) == f.trip_duration_days >= 1

WholeMiles(d) == {m \in Miles(d) : ~IsHuge(m) /\ m % 100 = 0}

WholeReceipts == {r \in Receipts : ~IsHuge(r) /\ r % 100 = 0}

Abs(x) == IF x < 0 THEN 0 - x ELSE x

---------------------------------------------------------------------------
(* Claims *)

\* C1 (floor invariant): a call with duration_days >= 1 that returns,
\* returns at least duration_days * 85.
C1_FloorInvariant ==
    \A c \in Callers :
        LET f == frame[c] IN
        (f.pc = "done" /\ Valid(f))
            => f.result >= f.trip_duration_days * MinimumFloorRate * 100

\* C1 witness: a call has returned whose total was below the floor and
\* whose result is the floor.
C1_Witness ==
    \E c \in Callers :
        LET f == frame[c] IN
        /\ f.pc = "done" /\ Valid(f) /\ Finite(f)
        /\ total_sum(f.base_reimbursement, f.receipt_contribution, f.efficiency_bonus,
                     f.quarter_adjustment, f.rounding_bonus)
               < min_reimbursement(f.trip_duration_days)
        /\ f.result = f.trip_duration_days * MinimumFloorRate * 100

\* C2 (totality and determinism): a call with duration_days >= 1 never
\* raises, and two calls with the same arguments, whatever the other caller
\* has run before or runs meanwhile, come to the same total (of which the
\* result is the rounding).
C2_TotalDeterministic ==
    /\ \A c \in Callers : Valid(frame[c]) => frame[c].pc # "raised"
    /\ \A c1, c2 \in Callers :
           LET f == frame[c1]
               g == frame[c2]
           IN  (/\ f.pc = "done" /\ g.pc = "done"
                /\ f.trip_duration_days = g.trip_duration_days
                /\ f.miles_traveled = g.miles_traveled
                /\ f.total_receipts_amount = g.total_receipts_amount)
                   => f.total_reimbursement = g.total_reimbursement

\* C3 (mileage monotonicity): once the mileage tiers are applied, the
\* base+mileage subtotal of the call is at most the subtotal of the same
\* duration with any larger mileage.
C3_MileageMonotone ==
    \A c \in Callers :
        LET f == frame[c] IN
        (f.pc = "receipts" /\ Valid(f))
            => \A m2 \in Miles(f.trip_duration_days) :
                   f.miles_traveled <= m2
                       => f.base_reimbursement
                              <= base_reimbursement(f.trip_duration_days, m2)

\* C3 witness: the tiers were applied to a mileage above the upper
\* breakpoint, with a smaller mileage below it to compare with.
C3_Witness ==
    \E c \in Callers :
        LET f == frame[c] IN
        /\ f.pc = "receipts" /\ Valid(f) /\ Finite(f)
        /\ f.miles_traveled = (UpperMiles + 1) * 100
        /\ UpperMiles * 100 \in Miles(f.trip_duration_days)
        /\ base_reimbursement(f.trip_duration_days, UpperMiles * 100)
               <= f.base_reimbursement

\* the gain in subtotal of one more whole mile
MileGain(d, m) == base_reimbursement(d, m + 100) - base_reimbursement(d, m)

\* C4 (marginal mileage rate never increases): for whole miles a <= b the
\* gain from b to b+1 miles is at most the gain from a to a+1 miles.
C4_MarginalRateNonIncreasing ==
    \A c \in Callers :
        LET f == frame[c]
            d == f.trip_duration_days
        IN  (f.pc = "receipts" /\ Valid(f) /\ Finite(f) /\ f.miles_traveled % 100 = 0)
                => \A a \in WholeMiles(d) :
                       a <= f.miles_traveled
                           => base_reimbursement(d, f.miles_traveled + 100)
                                  - f.base_reimbursement
                              <= MileGain(d, a)

\* the gain in receipt contribution of one more whole dollar
ReceiptGain(d, r) == receipt_contribution(d, r + 100) - receipt_contribution(d, r)

\* C5 (receipt-tier dampening): for a duration of 1..12 days and whole
\* amounts a <= b the gain in contribution from b to b+1 is at most the
\* gain from a to a+1.
C5_ReceiptDampening ==
    \A c \in Callers :
        LET f == frame[c]
            d == f.trip_duration_days
        IN  (f.pc = "efficiency" /\ d \in 1..12 /\ Finite(f)
             /\ f.total_receipts_amount % 100 = 0)
                => \A a \in WholeReceipts :
                       a <= f.total_receipts_amount
                           => receipt_contribution(d, f.total_receipts_amount + 100)
                                  - f.receipt_contribution
                              <= ReceiptGain(d, a)

C7_CentBonusExact ==
    \A c \in Callers :
        LET f == frame[c]
            r == f.total_receipts_amount
            bonus == IF r % 100 = 49 THEN Bonus49 ELSE Bonus99
        IN  (f.pc = "done" /\ Valid(f) /\ Finite(f) /\ r % 100 \in {49, 99})
                => \A v \in calculate_reimbursement(f.trip_duration_days,
                                                  f.miles_traveled, r - 1) :
                       Abs(f.result - v - bonus * 100) <= 1

\* main's arguments are three and all parse
AllParse ==
    /\ Len(argv) = 3
    /\ int_parses(argv[1]) /\ float_parses(argv[2]) /\ float_parses(argv[3])

\* C8 (command-line outcome): main always comes to its end; it prints the
\* result and exits 0 exactly when it is given three arguments that all
\* parse; with another number of arguments it prints the usage message and
\* exits non-zero without calling the engine; with an argument that does
\* not parse it prints an error message and exits non-zero.
C8_CommandLineOutcome ==
    /\ (mainpc # "exit") => ENABLED NextCLI
    /\ (mainpc = "exit") =>
          LET printed == IF stdout = <<>> THEN "nothing" ELSE stdout[1].kind IN
          /\ (exitcode = 0 /\ printed = "result") <=> AllParse
          /\ Len(argv) # 3
                => printed = "usage" /\ exitcode # 0 /\ frame[1].pc = "idle"
          /\ (Len(argv) = 3 /\ ~AllParse)
                => printed = "error" /\ exitcode # 0

\* C9 (scenario 5 days, 250 miles, 500 receipts): the five-day bonus of 20
\* is added, the receipt contribution is 500 * 0.395, nothing else
\* contributes and the result is 897.50.
C9_ScenarioFiveDays ==
    \A c \in Callers :
        LET f == frame[c] IN
        (f.pc = "done" /\ f.trip_duration_days = 5 /\ f.miles_traveled = 250 * 100
         /\ f.total_receipts_amount = 500 * 100)
            => /\ f.result = 89750
               /\ f.base_reimbursement = 5 * 115 * Dollar + 250 * 42 * Cent
               /\ f.receipt_contribution = 500 * 395 * 100
               /\ f.efficiency_bonus = 20
               /\ f.quarter_adjustment = 0
               /\ f.rounding_bonus = 0
               /\ f.total_reimbursement = 89750 * Cent

\* C9 witness: the call (5, 250, 500) has returned 897.50.
C9_Witness ==
    \E c \in Callers :
        LET f == frame[c] IN
        /\ f.pc = "done" /\ f.trip_duration_days = 5 /\ f.miles_traveled = 250 * 100
        /\ f.total_receipts_amount = 500 * 100
        /\ f.result = 89750

\* C10 (scenario 2 days, 1000 miles, no receipts): only the upper mileage
\* penalty (1000 - 800) * 0.15 applies to the base accrual and the result
\* is 620.00.
C10_ScenarioUpperTier ==
    \A c \in Callers :
        LET f == frame[c] IN
        (f.pc = "done" /\ f.trip_duration_days = 2 /\ f.miles_traveled = 1000 * 100
         /\ f.total_receipts_amount = 0)
            => /\ f.result = 62000
               /\ f.base_reimbursement
                      = 2 * 115 * Dollar + 1000 * 42 * Cent - 200 * 15 * Cent
               /\ f.receipt_contribution = 0
               /\ f.efficiency_bonus = 0
               /\ f.quarter_adjustment = 0
               /\ f.rounding_bonus = 0
               /\ f.total_reimbursement = 62000 * Cent

\* C10 witness: the call (2, 1000, 0) has returned 620.00.
C10_Witness ==
    \E c \in Callers :
        LET f == frame[c] IN
        /\ f.pc = "done" /\ f.trip_duration_days = 2 /\ f.miles_traveled = 1000 * 100
        /\ f.total_receipts_amount = 0
        /\ f.result = 62000

\* the sum of line 95-99 over the fields of a frame
FrameSum(f) ==
    total_sum(f.base_reimbursement, f.receipt_contribution, f.efficiency_bonus,
              f.quarter_adjustment, f.rounding_bonus)

\* C11 (no floor on short and medium trips): for a duration of 1..12 days
\* the total before the clamp is at least duration_days * 85 and the clamp
\* leaves it as it is; the call (1, 0, 0) returns 115.00.
C11_NoFloorUpToTwelveDays ==
    \A c \in Callers :
        LET f == frame[c] IN
        /\ (f.pc \in {"return", "done"} /\ f.trip_duration_days \in 1..12)
              => /\ FrameSum(f) >= f.trip_duration_days * 85 * Dollar
                 /\ f.total_reimbursement = FrameSum(f)
        /\ (f.pc = "done" /\ f.trip_duration_days = 1 /\ f.miles_traveled = 0
            /\ f.total_receipts_amount = 0)
              => f.result = 11500

\* C11 witness: a 12-day call with receipts far above the upper cap has
\* returned its unclamped total.
C11_Witness ==
    \E c \in Callers :
        LET f == frame[c] IN
        /\ f.pc = "done" /\ f.trip_duration_days = 12 /\ Finite(f)
        /\ f.total_receipts_amount > 25000 * 100
        /\ f.total_reimbursement = FrameSum(f)

\* the stages after the quarter adjustment of lines 78-83
AfterQuarter == {"rounding", "final", "return", "done"}

\* C12 (quarter adjustment): once the quarter stage has run, the adjustment
\* is 0 for a duration below 3 days, and for 3 days or more it is
\* duration_days * 5 exactly when
\* (days*17 + floor(miles*13) + floor(receipts*7)) mod 100 is below 15,
\* and 0 otherwise.
C12_QuarterAdjustment ==
    \A c \in Callers :
        LET f == frame[c]
            d == f.trip_duration_days
            h == (d * 17 + (f.miles_traveled * 13) \div 100
                         + (f.total_receipts_amount * 7) \div 100) % 100
        IN  f.pc \in AfterQuarter
               => IF d < 3 THEN f.quarter_adjustment = 0
                  ELSE /\ h < 15 => f.quarter_adjustment = d * 5
                       /\ h >= 15 => f.quarter_adjustment = 0

\* C12 witness: a trip of 3 days or more whose hash is 14, just below the
\* threshold, has been given duration_days * 5.
C12_Witness ==
    \E c \in Callers :
        LET f == frame[c] IN
        /\ f.pc = "rounding" /\ f.trip_duration_days >= 3
        /\ trip_hash(f.trip_duration_days, f.miles_traveled,
                     f.total_receipts_amount) = 14
        /\ f.quarter_adjustment = f.trip_duration_days * 5

\* the stages after the five-day bonus of lines 74-75
AfterFiveDay == {"quarter", "rounding", "final", "return", "done"}

\* miles per day within [200, 300], the condition of lines 66-68
InEfficiencyRange(f) ==
    /\ f.trip_duration_days > 0
    /\ f.miles_traveled >= 200 * f.trip_duration_days * 100
    /\ f.miles_traveled <= 300 * f.trip_duration_days * 100

\* C13 (fixed-duration bonus independence): once lines 66-75 have run, the
\* bonus is the efficiency part (min(days*8, 40) within [200, 300] miles per
\* day, else 0) plus 20 for a duration of exactly 5 days and plus nothing
\* for any other duration; a 5-day trip within the range has 40 + 20.
C13_FiveDayBonusIndependent ==
    \A c \in Callers :
        LET f == frame[c]
            d == f.trip_duration_days
            part == IF InEfficiencyRange(f) THEN Min(d * 8, 40) ELSE 0
        IN  f.pc \in AfterFiveDay
               => /\ f.efficiency_bonus = part + (IF d = 5 THEN 20 ELSE 0)
                  /\ (d = 5 /\ InEfficiencyRange(f)) => f.efficiency_bonus = 60
                  /\ (d = 5 /\ ~InEfficiencyRange(f)) => f.efficiency_bonus = 20

\* C13 witness: a 5-day trip at 300 miles per day has both bonuses in full.
C13_Witness ==
    \E c \in Callers :
        LET f == frame[c] IN
        /\ f.pc = "quarter" /\ f.trip_duration_days = 5
        /\ f.miles_traveled = 1500 * 100
        /\ f.efficiency_bonus = 60

\* the stages after the clamp of lines 102-104
AfterClamp == {"return", "done"}

\* C14 (hard clamp applied last): the floor is compared with the sum of the
\* base, the receipt contribution and every bonus.  When that sum is below
\* duration_days * 85 the total becomes, and the call returns, exactly
\* duration_days * 85; when it is not below, the total stays the sum and
\* the call returns the sum rounded to the nearest cent.
C14_HardClampLast ==
    \A c \in Callers :
        LET f == frame[c]
            d == f.trip_duration_days
            bonuses == f.efficiency_bonus + f.quarter_adjustment + f.rounding_bonus
            sum == IF IsHuge(f.base_reimbursement) THEN Huge
                   ELSE f.base_reimbursement + f.receipt_contribution
                            + bonuses * Dollar
        IN  f.pc \in AfterClamp
               => IF sum < d * 85 * Dollar
                  THEN /\ f.total_reimbursement = d * 85 * Dollar
                       /\ f.pc = "done" => f.result = d * 85 * 100
                  ELSE /\ f.total_reimbursement = sum
                       /\ (f.pc = "done" /\ IsHuge(sum)) => f.result = Huge
                       /\ (f.pc = "done" /\ ~IsHuge(sum))
                             => 2 * Abs(f.result * Cent - sum) <= Cent

\* C14 witness: a call whose bonuses are positive but whose sum is below
\* the floor has returned the floor alone.
C14_Witness ==
    \E c \in Callers :
        LET f == frame[c] IN
        /\ f.pc = "done"
        /\ f.efficiency_bonus + f.quarter_adjustment + f.rounding_bonus > 0
        /\ FrameSum(f) < min_reimbursement(f.trip_duration_days)
        /\ f.result = f.trip_duration_days * 85 * 100

\* the stages after the receipt processing of lines 50-61
AfterReceipts ==
    {"efficiency", "five_day", "quarter", "rounding", "final", "return", "done"}

\* C15 (receipt contribution): once the receipt stage has run, the
\* contribution is amount * k up to 1000, 1000 * k + (amount - 1000) * k * 0.6
\* above 1000 and up to 2000, and (2000 + (amount - 2000) * 0.2) * k above
\* 2000, where k is the table entry for a duration of 1..14 days and -0.08
\* for every other duration, whatever the sign of k.
C15_ReceiptContribution ==
    \A c \in Callers :
        LET f == frame[c]
            d == f.trip_duration_days
            r == f.total_receipts_amount
            table == <<520, 500, 380, 410, 395, 385, 330,
                       225, 150, 105, 90, 40, -5, -55>>
            k == IF d >= 1 /\ d <= 14 THEN table[d] ELSE -80
        IN  f.pc \in AfterReceipts
               => IF IsHuge(r)
                  THEN f.receipt_contribution = IF k < 0 THEN 0 - Huge ELSE Huge
                  ELSE IF r > 2000 * 100
                  THEN f.receipt_contribution
                          = 2000 * 100 * k + ((r - 2000 * 100) * k) \div 5
                  ELSE IF r > 1000 * 100
                  THEN f.receipt_contribution
                          = 1000 * 100 * k + ((r - 1000 * 100) * k * 6) \div 10
                  ELSE f.receipt_contribution = r * k

\* C15 witness: a 15-day trip, outside the table, with receipts above 2000
\* has the negative contribution (2000 + (amount - 2000) * 0.2) * -0.08.
C15_Witness ==
    \E c \in Callers :
        LET f == frame[c] IN
        /\ f.pc = "efficiency" /\ f.trip_duration_days = 15
        /\ f.total_receipts_amount = 25000 * 100
        /\ f.receipt_contribution = 0 - 6600 * 80 * 100

\* C16 (zero-duration guard): a call with duration_days = 0 returns a value,
\* it never ends in an exception, and once lines 66-75 have run the
\* efficiency sub-rule has contributed 0.
C16_ZeroDurationGuard ==
    \A c \in Callers :
        LET f == frame[c] IN
        (f.pc # "idle" /\ f.trip_duration_days = 0)
            => /\ f.pc # "raised"
               /\ f.pc \in AfterFiveDay => f.efficiency_bonus = 0

\* the stages after the cents bonus of lines 87-92
AfterRounding == {"final", "return", "done"}

\* C17 (rounding-artifact bonus): once lines 87-92 have run, the rounding
\* bonus is 8 when the receipts end in 49 cents, 12 when they end in 99
\* cents and 0 for every other cent value, whatever the duration and the
\* mileage.
C17_RoundingArtifactBonus ==
    \A c \in Callers :
        LET f == frame[c]
            cts == f.total_receipts_amount % 100
        IN  f.pc \in AfterRounding
               => f.rounding_bonus = IF cts = 49 THEN 8
                                     ELSE IF cts = 99 THEN 12
                                     ELSE 0

\* the number of whole-mile values among the 100 from m on (m in hundredths)
\* that receive the quarter bonus of lines 78-83, for d days and receipts r
Selected(d, m, r) ==
    Cardinality({k \in 0..99 : quarter_adjustment(d, m + k * 100, r) > 0})

\* C18 (quarter-adjustment selection rate): for a duration of 3 days or
\* more and any receipts, the hash of a call lies in 0..99, the call has
\* the bonus exactly when its hash is below 15, and among the 100
\* consecutive whole-number mileages starting at the call's own exactly 15
\* receive the quarter bonus.
C18_QuarterSelectionRate ==
    \A c \in Callers :
        LET f == frame[c]
            d == f.trip_duration_days
            m == f.miles_traveled
            r == f.total_receipts_amount
        IN  (f.pc = "rounding" /\ d >= 3 /\ m % 100 = 0)
               => /\ trip_hash(d, m, r) \in 0..99
                  /\ (f.quarter_adjustment > 0) = (trip_hash(d, m, r) < 15)
                  /\ Selected(d, m, r) = 15

\* C18 witness: a call of 3 days or more with a whole, positive mileage has
\* itself received the bonus, as one of the 15 of its window.
C18_Witness ==
    \E c \in Callers :
        LET f == frame[c] IN
        /\ f.pc = "rounding" /\ f.trip_duration_days >= 3
        /\ f.miles_traveled % 100 = 0 /\ f.miles_traveled >= 1000 * 100
        /\ f.quarter_adjustment > 0
        /\ Selected(f.trip_duration_days, f.miles_traveled,
                    f.total_receipts_amount) = 15

=============================================================================
